---------------------------- MODULE Spec2Model ----------------------------
(***************************************************************************)
(* Model of premise/marginal_mixes.py: the technology parameter store      *)
(* (get_lifetime, get_leadtime and their lru caches), the share and rate   *)
(* calculators, the supplier-constraint filter and consequential_method.   *)
(*                                                                         *)
(* Floating point values are modelled as exact rationals <<n, d>> with     *)
(* d > 0 in lowest terms, plus the three IEEE specials: NaN == <<0, 0>>,   *)
(* +inf == <<1, 0>> and -inf == <<-1, 0>>.  Division never raises (numpy   *)
(* semantics): x / 0 is NaN for x = 0 and an infinity otherwise.           *)
(***************************************************************************)
EXTENDS Integers, Sequences, FiniteSets, TLC

\* ------------------------------------------------------------------------
\* Floating point numbers as rationals
\* ------------------------------------------------------------------------

Abs(x) == IF x < 0 THEN -x ELSE x

Sign(x) == IF x < 0 THEN -1 ELSE IF x > 0 THEN 1 ELSE 0

RECURSIVE GCD(_, _)
GCD(a, b) == IF b = 0 THEN a ELSE GCD(b, a % b)

NaN == <<0, 0>>

IsNaN(a) == a[2] = 0 /\ a[1] = 0

IsInf(a) == a[2] = 0 /\ a[1] # 0

IsFinite(a) == a[2] > 0

\* the canonical representative of n / d (d may be negative or zero)
Rat(n, d) ==
    IF d = 0 THEN <<Sign(n), 0>>
    ELSE LET g == GCD(Abs(n), Abs(d))
             s == IF d < 0 THEN -1 ELSE 1
         IN  <<(s * n) \div g, (s * d) \div g>>

FromInt(i) == <<i, 1>>

Zero == <<0, 1>>

RAdd(a, b) ==
    IF IsNaN(a) \/ IsNaN(b) THEN NaN
    ELSE IF IsInf(a) /\ IsInf(b) THEN (IF a = b THEN a ELSE NaN)
    ELSE IF IsInf(a) THEN a
    ELSE IF IsInf(b) THEN b
    ELSE LET g == GCD(a[2], b[2])
         IN  Rat(a[1] * (b[2] \div g) + b[1] * (a[2] \div g), (a[2] \div g) * b[2])

RNeg(a) == <<-a[1], a[2]>>

RSub(a, b) == RAdd(a, RNeg(b))

RMul(a, b) ==
    IF IsNaN(a) \/ IsNaN(b) THEN NaN
    ELSE IF IsInf(a) \/ IsInf(b) THEN <<Sign(a[1]) * Sign(b[1]), 0>>
    ELSE Rat(a[1] * b[1], a[2] * b[2])

\* a / b as numpy divides: 0/0 and inf/inf are NaN, x/0 is an infinity
RDiv(a, b) ==
    IF IsNaN(a) \/ IsNaN(b) THEN NaN
    ELSE IF IsInf(a) THEN (IF IsInf(b) THEN NaN
                           ELSE <<a[1] * (IF b[1] < 0 THEN -1 ELSE 1), 0>>)
    ELSE IF IsInf(b) THEN Zero
    ELSE Rat(a[1] * b[2], a[2] * b[1])

\* a < b; every comparison with NaN is false
RLt(a, b) ==
    IF IsNaN(a) \/ IsNaN(b) THEN FALSE
    ELSE IF IsInf(a) \/ IsInf(b)
         THEN (IF IsInf(a) THEN a[1] ELSE 0) < (IF IsInf(b) THEN b[1] ELSE 0)
              \/ (IsInf(a) /\ a[1] < 0 /\ ~IsInf(b))
              \/ (IsInf(b) /\ b[1] > 0 /\ ~IsInf(a))
    ELSE a[1] * b[2] < b[1] * a[2]

RLe(a, b) == a = b \/ RLt(a, b)

\* float -> int conversion of a finite value: truncation towards zero
Trunc(a) == IF a[1] >= 0 THEN a[1] \div a[2] ELSE -((-a[1]) \div a[2])

\* nearest integer to n / d (d > 0), ties to the even neighbour (numpy rint)
RoundHalfEven(n, d) ==
    LET f == n \div d
        r == n - f * d
    IN  IF 2 * r < d THEN f
        ELSE IF 2 * r > d THEN f + 1
        ELSE IF f % 2 = 0 THEN f ELSE f + 1


\* np.round(x, 3); NaN and the infinities round to themselves
Round3(a) == IF a[2] = 0 THEN a ELSE Rat(RoundHalfEven(1000 * a[1], a[2]), 1000)

\* s[lo] + ... + s[hi]
RECURSIVE SumFromTo(_, _, _)
SumFromTo(s, lo, hi) ==
    IF lo > hi THEN Zero
    ELSE IF lo = hi THEN s[lo]
    ELSE LET mid == (lo + hi) \div 2
         IN  RAdd(SumFromTo(s, lo, mid), SumFromTo(s, mid + 1, hi))

SumSeq(s) == SumFromTo(s, 1, Len(s))

\* xarray's .sum(): skipna is on for floats, the sum of nothing is 0
SumSkipNa(s) == SumSeq(SelectSeq(s, LAMBDA x : ~IsNaN(x)))

\* an array given elementwise, as the sequence of its elements
Arr(f) == SelectSeq(f, LAMBDA x : TRUE)

\* ------------------------------------------------------------------------
\* Technology labels.  A label is the sequence of its characters, so that
\* Python's substring test `x in v` is a computation on the label.
\* ------------------------------------------------------------------------

Gas == <<"G", "a", "s">>
Wind == <<"W", "i", "n", "d">>
GasCHP == <<"G", "a", "s", " ", "C", "H", "P">>
Biomethane == <<"b", "i", "o", "m", "e", "t", "h", "a", "n", "e">>

\* Python `x in v` for strings
Contains(v, x) ==
    \E i \in 1..(Len(v) - Len(x) + 1) : SubSeq(v, i, i + Len(x) - 1) = x

\* Python `v in seq` for tuples and lists
Member(v, seq) == \E i \in 1..Len(seq) : seq[i] = v

tech_to_ignore == << <<"C", "H", "P">>, Biomethane >>

Constrained(v) == \E i \in 1..Len(tech_to_ignore) : Contains(v, tech_to_ignore[i])

\* ------------------------------------------------------------------------
\* Technology parameter store
\* ------------------------------------------------------------------------

\* {k: v for k, v in dict_.items() if k in list_tech}.values(): the values
\* of the table's entries whose key is in list_tech, in the table's order.
\* A table is the sequence of its <<key, value>> entries.
FilterTableCallerOrder(table, list_tech) ==
    LET present == SelectSeq(list_tech,
                             LAMBDA v : \E i \in 1..Len(table) : table[i][1] = v)
    IN  [k \in 1..Len(present) |->
            table[CHOOSE i \in 1..Len(table) : table[i][1] = present[k]][2]]

RECURSIVE FilterTable(_, _)
FilterTable(table, list_tech) ==
    IF table = <<>> THEN <<>>
    ELSE LET rest == FilterTable(Tail(table), list_tech)
         IN  IF Member(Head(table)[1], list_tech)
             THEN <<Head(table)[2]>> \o rest
             ELSE rest

\* functools.lru_cache used as a bare decorator: maxsize is 128
CacheMaxSize == 128

\* A cache is the sequence of its [key, value] entries, least recently used
\* first.
CacheHas(cache, key) == \E i \in 1..Len(cache) : cache[i].key = key

CacheGet(cache, key) ==
    (CHOOSE e \in {cache[i] : i \in 1..Len(cache)} : e.key = key).value

\* the cache after a call with `key` whose computed value is `value`: a hit
\* makes the entry the most recently used, a miss on a full cache evicts the
\* least recently used entry
CacheAfterCallOneEntryLess(cache, key, value) ==
    LET e == [key |-> key, value |-> value]
        others == SelectSeq(cache, LAMBDA x : x.key # key)
    IN  IF CacheHas(cache, key) THEN others \o <<[key |-> key, value |-> CacheGet(cache, key)]>>
        ELSE IF Len(cache) >= CacheMaxSize - 1 THEN Tail(cache) \o <<e>>
        ELSE cache \o <<e>>

CacheAfterCall(cache, key, value) ==
    LET e == [key |-> key, value |-> value]
        others == SelectSeq(cache, LAMBDA x : x.key # key)
    IN  IF CacheHas(cache, key) THEN others \o <<[key |-> key, value |-> CacheGet(cache, key)]>>
        ELSE IF Len(cache) >= CacheMaxSize THEN Tail(cache) \o <<e>>
        ELSE cache \o <<e>>

\* what a call returns: the cached array on a hit, the computed one on a miss
CacheResultStale(cache, key, value) ==
    IF CacheHas(cache, key) THEN Tail(CacheGet(cache, key)) ELSE value

CacheResult(cache, key, value) ==
    IF CacheHas(cache, key) THEN CacheGet(cache, key) ELSE value

get_lifetime_body(table, list_tech) == FilterTable(table, list_tech)

get_leadtime_body(table, list_tech) == FilterTable(table, list_tech)

\* ------------------------------------------------------------------------
\* Share and rate calculators.  Arrays are sequences of numbers.
\* ------------------------------------------------------------------------

\* numpy broadcasting of a DataArray of length n with an ndarray of length k
Broadcasts(n, k) == k = n \/ k = 1

BroadcastAt(arr, n, i) == IF Len(arr) = n THEN arr[i] ELSE arr[1]

\* shares * leadtime (defined when Broadcasts(Len(shares), Len(arr)))
MulArr(shares, arr) ==
    Arr([i \in 1..Len(shares) |-> RMul(shares[i], BroadcastAt(arr, Len(shares), i))])

fetch_avg_leadtime(leadtime, shares) == Trunc(SumSkipNa(MulArr(shares, leadtime)))

fetch_avg_lifetime_nofallback(lifetime, shares) == Trunc(SumSkipNa(MulArr(shares, lifetime)))

fetch_avg_lifetime(lifetime, shares) ==
    LET v == Trunc(SumSkipNa(MulArr(shares, lifetime)))
    IN  IF v = 0 THEN 30 ELSE v

fetch_avg_capital_replacement_rate(avg_lifetime, data_at) ==
    LET v == RMul(RDiv(FromInt(-1), FromInt(avg_lifetime)), SumSkipNa(data_at))
    IN  IF v = Zero THEN Zero ELSE v

fetch_capital_replacement_rates(lifetime, data_at) ==
    Arr([i \in 1..Len(data_at) |->
            RMul(RDiv(FromInt(-1), BroadcastAt(lifetime, Len(data_at), i)), data_at[i])])


\* ------------------------------------------------------------------------
\* The caller's data: a DataArray over (variables, region, year)
\* ------------------------------------------------------------------------

\* data.year.values: the years the IAM reports (interpolated in between)
DataYears == <<0, 1, 2, 3, 4, 32>>

Regions == <<"EUR", "USA">>

Range(s) == {s[i] : i \in 1..Len(s)}

SetMin(S) == CHOOSE x \in S : \A y \in S : x <= y

SetMax(S) == CHOOSE x \in S : \A y \in S : x >= y

\* min(data.year.values), max(data.year.values)
minimum == SetMin(Range(DataYears))

maximum == SetMax(Range(DataYears))

\* an index that reaches one year beyond the data on either side
years_to_interp_for_extrapolating == (minimum - 1)..(maximum + 1)

\* list(range(minimum, maximum + 1))
years_to_interp_for == minimum..maximum

\* where a year lies among DataYears (scipy interp1d's searchsorted): the
\* two neighbouring data years and the distance from the lower one
Bracket ==
    [y \in minimum..maximum |->
        IF \E k \in 1..Len(DataYears) : DataYears[k] = y
        THEN LET k == CHOOSE k \in 1..Len(DataYears) : DataYears[k] = y
             IN  [lo |-> k, hi |-> k, num |-> 0, den |-> 1]
        ELSE LET k == CHOOSE k \in 1..(Len(DataYears) - 1) :
                          DataYears[k] < y /\ y < DataYears[k + 1]
             IN  [lo |-> k, hi |-> k + 1, num |-> y - DataYears[k],
                  den |-> DataYears[k + 1] - DataYears[k]]]

\* linear interpolation of a series given at DataYears, at year y
\* (scipy interp1d, kind linear); NaN outside the data range
InterpAt(series, y) ==
    IF y < minimum \/ y > maximum THEN NaN
    ELSE LET b == Bracket[y]
             lo == series[b.lo]
             hi == series[b.hi]
         IN  IF b.num = 0 THEN lo
             ELSE Rat(lo[1] * hi[2] * b.den + (hi[1] * lo[2] - lo[1] * hi[2]) * b.num,
                      lo[2] * hi[2] * b.den)

\* data.interp(year=years_to_interp_for): a new array over every year
interp(values) ==
    [t \in DOMAIN values |->
        [r \in DOMAIN values[t] |->
            [y \in years_to_interp_for |-> InterpAt(values[t][r], y)]]]

\* .sel(year=y) raises KeyError for a year that is no label of the index
InIndex(y) == y \in years_to_interp_for

\* data_full.sel(region=r, year=y): one value per technology
SelRegionYear(full, r, y) == Arr([t \in DOMAIN full |-> full[t][r][y]])

\* a / a.sum(dim="variables")
SharesOf(vec) ==
    LET total == SumSkipNa(vec)
    IN  Arr([t \in 1..Len(vec) |-> RDiv(vec[t], total)])

fetch_volume_change(full, r, start_year, end_year) ==
    RDiv(RSub(SumSkipNa(SelRegionYear(full, r, end_year)),
              SumSkipNa(SelRegionYear(full, r, start_year))),
         FromInt(end_year - start_year))

\* the array with the series of every constrained supplier set to 0
remove_constrained_suppliers(variables, full) ==
    [t \in DOMAIN full |->
        IF Constrained(variables[t])
        THEN [r \in DOMAIN full[t] |-> [y \in DOMAIN full[t][r] |-> Zero]]
        ELSE full[t]]


\* ------------------------------------------------------------------------
\* Time window resolution (the time_parameters table)
\* ------------------------------------------------------------------------

\* a Python bool as a dictionary key component: True == 1, False == 0
B(b) == IF b THEN 1 ELSE 0

\* year + leadtime + k, an array
PlusArr(leadtime, k) == Arr([i \in 1..Len(leadtime) |-> RAdd(leadtime[i], FromInt(k))])

\* the keys of the dictionary literal, in source order
time_parameter_keys ==
    << <<0, 0, 0, 0>>, <<0, 0, 1, 1>>, <<0, 0, 0, 1>>, <<1, 0, 0, 1>>, <<1, 0, 1, 0>>,
       <<1, 0, 0, 1>>, <<1, 0, 1, 1>>, <<1, 1, 0, 0>>, <<1, 1, 1, 0>>, <<1, 1, 0, 1>>,
       <<1, 1, 1, 1>> >>

\* the value of the i-th entry of the dictionary literal
time_parameters(i, year, leadtime, shares, range_time, duration) ==
    LET avg == fetch_avg_leadtime(leadtime, shares)
        life == fetch_avg_lifetime(leadtime, shares)
    IN  CASE i = 1 -> [start |-> year, end |-> year + avg,
                       start_avg |-> year, end_avg |-> year + life]
          [] i = 2 -> [start |-> year - avg, end |-> year,
                       start_avg |-> year - avg, end_avg |-> year + life]
          [] i = 3 -> [start |-> year, end |-> PlusArr(leadtime, year)]
          [] i = 4 -> [start |-> year + avg - range_time,
                       end |-> year + avg + range_time]
          [] i = 5 -> [start |-> year - range_time, end |-> year + range_time]
          [] i = 6 -> [start |-> PlusArr(leadtime, year - range_time),
                       end |-> PlusArr(leadtime, year + range_time)]
          [] i = 7 -> [start |-> year - range_time, end |-> year + range_time]
          [] i = 8 -> [start |-> year + avg, end |-> year + avg + duration]
          [] i = 9 -> [start |-> year, end |-> year + duration]
          [] i = 10 -> [start |-> PlusArr(leadtime, year),
                        end |-> PlusArr(leadtime, year + duration)]
          [] i = 11 -> [start |-> year, end |-> year + duration]

\* the entries that carry "start_avg" and "end_avg"
HasAvg(i) == i \in {1, 2}

HasKey(key) == \E i \in 1..Len(time_parameter_keys) : time_parameter_keys[i] = key

\* time_parameters[key]: the entry a key selects, 0 for the KeyError of a key
\* that is not in the dictionary; of two entries with equal keys the later
\* stands
EntryOfOrFirst(key) ==
    IF HasKey(key)
    THEN CHOOSE i \in 1..Len(time_parameter_keys) :
            /\ time_parameter_keys[i] = key
            /\ \A j \in (i + 1)..Len(time_parameter_keys) : time_parameter_keys[j] # key
    ELSE 1

EntryOf(key) ==
    IF HasKey(key)
    THEN CHOOSE i \in 1..Len(time_parameter_keys) :
            /\ time_parameter_keys[i] = key
            /\ \A j \in (i + 1)..Len(time_parameter_keys) : time_parameter_keys[j] # key
    ELSE 0

\* the key of the first two lookups and the key of the last two
StartKey(args) ==
    <<B(args.foresight), B(args.capital_repl_rate), B(args.lead_time), args.measurement>>

AvgKey(args) ==
    <<B(args.range_time # 0), B(args.duration # 0), B(args.foresight), B(args.lead_time)>>

\* the four lookups of the try block succeed
Resolves(args) ==
    /\ EntryOf(StartKey(args)) # 0
    /\ EntryOf(AvgKey(args)) # 0
    /\ HasAvg(EntryOf(AvgKey(args)))

\* ------------------------------------------------------------------------
\* Measurement
\* ------------------------------------------------------------------------

\* (data[avg_end] - data[avg_start]) / (avg_end - avg_start)
Slope(full, r, avg_start, avg_end) ==
    Arr([t \in DOMAIN full |->
            RDiv(RSub(full[t][r][avg_end], full[t][r][avg_start]),
                 FromInt(avg_end - avg_start))])

\* polyfit(dim="year", deg=1).polyfit_coefficients[0]: the least squares
\* slope of the series over the years avg_start..avg_end
PolyfitSlope(full, r, avg_start, avg_end) ==
    LET n == avg_end - avg_start
        \* twice the distance of the i-th year of the window from their mean
        W(i) == FromInt(2 * (i - 1) - n)
        den == SumSeq(Arr([i \in 1..(n + 1) |-> RMul(W(i), W(i))]))
    IN  Arr([t \in DOMAIN full |->
                RDiv(RMul(FromInt(2),
                          SumSeq(Arr([i \in 1..(n + 1) |->
                                        RMul(W(i), full[t][r][avg_start + i - 1])]))),
                     den)])

\* the raw measurement of one region (measurement 0 and 1, with and without
\* the capital replacement rate).  The branches of measurement 2, 3 and 4 are
\* not reached: (foresight, capital_repl_rate, lead_time, measurement) is a
\* key of time_parameters only for measurement 0 and 1.
RawMeasure(args, full, lifetime, r, avg_start, avg_end) ==
    LET base == IF args.measurement = 0
                THEN Slope(full, r, avg_start, avg_end)
                ELSE PolyfitSlope(full, r, avg_start, avg_end)
        cap_repl_rate ==
            fetch_capital_replacement_rates(lifetime, SelRegionYear(full, r, avg_start))
    IN  IF args.capital_repl_rate
        THEN Arr([t \in 1..Len(base) |-> RSub(base[t], cap_repl_rate[t])])
        ELSE base

\* .round(3), then +inf and NaN replaced by 0
RoundAndClean(vec) ==
    Arr([t \in 1..Len(vec) |->
            LET x == Round3(vec[t])
            IN  IF x = <<1, 0>> \/ IsNaN(x) THEN Zero ELSE x])

\* the market is shrinking (faster than the capital replacement rate)
Shrinking(args, volume_change, avg_cap_repl_rate) ==
    \/ ~args.capital_repl_rate /\ RLt(volume_change, Zero)
    \/ args.capital_repl_rate /\ RLt(volume_change, avg_cap_repl_rate)

\* sign based filtering: in a shrinking market the suppliers with a positive
\* growth are removed and the sign of the others is reversed, otherwise the
\* suppliers with a negative growth are removed
Kept(vec, shrinking) ==
    Arr([t \in 1..Len(vec) |->
            IF shrinking
            THEN (IF RLt(Zero, vec[t]) THEN Zero ELSE RNeg(vec[t]))
            ELSE (IF RLt(vec[t], Zero) THEN Zero ELSE vec[t])])

\* sign based filtering, then division by the sum over the technologies
FilterAndNormalise(vec, shrinking) ==
    LET kept == Kept(vec, shrinking)
        total == SumSkipNa(kept)
    IN  Arr([t \in 1..Len(vec) |-> RDiv(kept[t], total)])

\* ------------------------------------------------------------------------
\* Inputs
\* ------------------------------------------------------------------------

\* the technologies of the data with the two yaml tables of the installation
Inventories ==
    { [variables |-> <<Gas, Wind, GasCHP>>,
       leadtimes |-> << <<Gas, <<2, 1>>>>, <<Wind, <<3, 1>>>>, <<GasCHP, <<1, 1>>>> >>,
       lifetimes |-> << <<Gas, <<30, 1>>>>, <<Wind, <<20, 1>>>>, <<GasCHP, <<25, 1>>>> >>],
      [variables |-> <<Gas, Wind, Biomethane>>,
       leadtimes |-> << <<Gas, <<3, 1>>>>, <<Wind, <<3, 1>>>>, <<Biomethane, <<3, 1>>>> >>,
       lifetimes |-> << <<Gas, <<30, 1>>>>, <<Wind, <<20, 1>>>>, <<Biomethane, <<25, 1>>>> >>],
      [variables |-> <<Gas, Wind, GasCHP>>,
       leadtimes |-> << <<GasCHP, <<1, 2>>>>, <<Wind, <<1, 2>>>>, <<Gas, <<1, 2>>>> >>,
       lifetimes |-> << <<GasCHP, <<25, 1>>>>, <<Wind, <<20, 1>>>>, <<Gas, <<30, 1>>>> >>],
      [variables |-> <<Gas, Wind, GasCHP>>,
       leadtimes |-> << <<Gas, <<2, 1>>>>, <<GasCHP, <<1, 1>>>> >>,
       lifetimes |-> << <<Gas, <<30, 1>>>>, <<Wind, <<20, 1>>>>, <<GasCHP, <<25, 1>>>> >>] }

\* a series at DataYears, its values given in units of 1/d
Series(s, d) == [k \in 1..Len(s) |-> Rat(s[k], d)]

\* the series of the three technologies of one region, at DataYears
Markets ==
    { << Series(<<100, 120, 140, 160, 180, 740>>, 1), Series(<<50, 40, 30, 20, 10, 10>>, 1),
         Series(<<0, 0, 0, 0, 0, 0>>, 1) >>,
      << Series(<<2, 2, 2, 2, 2, 2>>, 1), Series(<<3, 3, 3, 3, 3, 3>>, 1),
         Series(<<1, 1, 1, 1, 1, 1>>, 1) >>,
      << Series(<<0, 0, 0, 0, 0, 0>>, 1), Series(<<0, 0, 0, 0, 0, 0>>, 1),
         Series(<<0, 0, 0, 0, 0, 0>>, 1) >>,
      << Series(<<10, 9, 8, 7, 6, 6>>, 1), Series(<<5, 5, 5, 5, 5, 5>>, 1),
         Series(<<0, 10, 20, 30, 40, 320>>, 1) >>,
      << Series(<<1, 1, 1, 2, 2, 2>>, 1), Series(<<1, 1, 1, 3, 3, 3>>, 1),
         Series(<<0, 0, 0, 0, 0, 0>>, 1) >>,
      << Series(<<40, 30, 20, 10, 5, 5>>, 1), Series(<<0, 0, 0, 0, 0, 0>>, 1),
         Series(<<3, 3, 3, 3, 3, 3>>, 1) >>,
      << Series(<<10, 14, 18, 22, 26, 138>>, 10000), Series(<<10, 20, 30, 40, 50, 330>>, 10000),
         Series(<<0, 0, 0, 0, 0, 0>>, 1) >>,
      << Series(<<10, 12, 14, 16, 18, 74>>, 1), Series(<<100, 98, 96, 94, 92, 36>>, 1),
         Series(<<0, 0, 0, 0, 0, 0>>, 1) >> }

\* the latest of the early target years asked for
MaxYear == 2

\* range_time and duration
MaxRangeTime == 1

MaxDuration == 1

Measurements == 0..4

\* the target years asked for: from the year before the data to MaxYear, and
\* the last year of the data
TargetYears == ((minimum - 1)..MaxYear) \cup {maximum}

ArgSet ==
    [range_time : 0..MaxRangeTime, duration : 0..MaxDuration,
     foresight : BOOLEAN, lead_time : BOOLEAN,
     capital_repl_rate : BOOLEAN, measurement : Measurements]

RegionIdx == 1..Len(Regions)

\* ------------------------------------------------------------------------
\* State
\* ------------------------------------------------------------------------

VARIABLES
    data,            \* the caller's array: [variables, values[t][r][k]]
    leadtimes_yaml,  \* the content of leadtimes.yaml
    lifetimes_yaml,  \* the content of lifetimes.yaml
    year,            \* the target year
    args,            \* the options of the call
    pc,              \* "idle" before the first call, "done" after a call
    ncall,           \* calls of consequential_method so far
    log,             \* per region, the locals of its iteration in the last call
    result,          \* what the last call returned or raised
    first_result,    \* the result of the first call
    data0,           \* the caller's array as it was before the first call
    leadtime_cache,  \* the lru cache of get_leadtime
    lifetime_cache,  \* the lru cache of get_lifetime
    reads,           \* how often each yaml file was opened
    store_call,      \* the last direct call of the parameter store
    avg_call,        \* the last direct call of fetch_avg_lifetime
    shares_call,     \* the last call of get_shares_from_production_volume
    self_cache,      \* self.cache of the BaseTransformation object
    relinked         \* the last exchange relink_technosphere_exchanges processed

vars ==
    <<data, leadtimes_yaml, lifetimes_yaml, year, args, pc, ncall, log, result,
      first_result, data0, leadtime_cache, lifetime_cache, reads, store_call, avg_call,
      shares_call, self_cache, relinked>>

\* the state of transformation.py
transformation_vars == <<shares_call, self_cache, relinked>>

None == [kind |-> "none"]

\* no BaseTransformation object in use: nothing called, the cache empty
TransformationIdle ==
    /\ shares_call = None
    /\ self_cache = <<>>
    /\ relinked = None

\* every flag off, measurement 0
PlainArgs ==
    [range_time |-> 0, duration |-> 0, foresight |-> FALSE, lead_time |-> FALSE,
     capital_repl_rate |-> FALSE, measurement |-> 0]

\* xr.zeros_like(data.interp(year=[year]))
ZeroShares(n) == Arr([t \in 1..n |-> Arr([r \in RegionIdx |-> Zero])])

DataOf(inv, m) ==
    [variables |-> inv.variables,
     values |-> [t \in 1..Len(inv.variables) |-> [r \in RegionIdx |-> m[r][t]]]]

Init ==
    /\ \E inv \in Inventories, m \in [RegionIdx -> Markets] :
          /\ data = DataOf(inv, m)
          /\ leadtimes_yaml = inv.leadtimes
          /\ lifetimes_yaml = inv.lifetimes
    /\ data0 = data
    /\ year \in TargetYears
    /\ args = PlainArgs
    /\ pc = "idle"
    /\ TransformationIdle
    /\ ncall = 0
    /\ log = <<>>
    /\ result = None
    /\ first_result = None
    /\ leadtime_cache = <<>>
    /\ lifetime_cache = <<>>
    /\ reads = [leadtime |-> 0, lifetime |-> 0]
    /\ store_call = None
    /\ avg_call = None

\* ------------------------------------------------------------------------
\* consequential_method
\* ------------------------------------------------------------------------

Raised(err) == [kind |-> "raised", error |-> err]

Returned(shares) == [kind |-> "returned", shares |-> shares]

\* data_full: the array data.interp allocated, the series of the constrained
\* suppliers zeroed in it once line 280 was reached
data_full(d, removed) ==
    IF removed THEN remove_constrained_suppliers(d.variables, interp(d.values))
    ELSE interp(d.values)

\* line 280: the constrained suppliers are zeroed in the working copy, which
\* data.interp allocated: the caller's array is another object
AfterRemoveAliased(d) ==
    [data |-> [d EXCEPT !.values =
                  [t \in DOMAIN d.values |->
                      IF Constrained(d.variables[t])
                      THEN [r \in DOMAIN d.values[t] |->
                              [k \in DOMAIN d.values[t][r] |-> Zero]]
                      ELSE d.values[t]]],
     removed |-> TRUE]

AfterRemove(d) == [data |-> d, removed |-> TRUE]

\* lines 190-256 of one region fail: the year is no label of the index, the
\* lead times do not broadcast against the shares, or a lookup of the table
\* fails
ResolveError(st, a, yr, leadtime, r) ==
    IF ~InIndex(yr) THEN "KeyError: year"
    ELSE IF ~Broadcasts(Len(st.data.variables), Len(leadtime))
         THEN "ValueError: broadcast"
    ELSE IF ~Resolves(a) THEN "KeyError: combination"
    ELSE "none"

\* lines 631-669 of one region: the measurement `raw` is rounded, filtered by
\* sign and normalised into the region's column of market_shares
ShareRegion(st, a, win, r, avg_lifetime, avg_cap_repl_rate, volume_change, raw) ==
    LET rounded == RoundAndClean(raw)
        shrinking == Shrinking(a, volume_change, avg_cap_repl_rate)
        final == FilterAndNormalise(rounded, shrinking)
    IN  [st EXCEPT
            !.market_shares = Arr([t \in DOMAIN st.market_shares |->
                                      [st.market_shares[t] EXCEPT ![r] = final[t]]]),
            !.log = Append(st.log, [win |-> win,
                               avg_lifetime |-> avg_lifetime,
                               avg_cap_repl_rate |-> avg_cap_repl_rate,
                               volume_change |-> volume_change,
                               shrinking |-> shrinking,
                               raw |-> raw,
                               rounded |-> rounded])]

\* lines 269-629 of one region, lifetime being what get_lifetime returned and
\* at_start the region's volumes in the year avg_start
MarketOfRegion(st, full, a, win, r, lifetime, at_start, avg_lifetime) ==
    LET after == AfterRemove(st.data)
    IN  ShareRegion([st EXCEPT !.data = after.data, !.removed = after.removed],
                    a, win, r, avg_lifetime,
                    fetch_avg_capital_replacement_rate(avg_lifetime, at_start),
                    fetch_volume_change(full, r, win.avg_start, win.avg_end),
                    RawMeasure(a, data_full(after.data, after.removed), lifetime, r,
                               win.avg_start, win.avg_end))

\* lines 260-669 of one region, the window being resolved
MeasureRegion(st, full, a, win, r) ==
    LET techs == st.data.variables
        computed == get_lifetime_body(lifetimes_yaml, techs)
        lifetime == CacheResult(st.lifetime_cache, techs, computed)
        called == [st EXCEPT
                      !.lifetime_cache = CacheAfterCall(st.lifetime_cache, techs, computed),
                      !.reads = IF CacheHas(st.lifetime_cache, techs) THEN @
                                ELSE [@ EXCEPT !.lifetime = @ + 1]]
        at_start == SelRegionYear(full, r, win.avg_start)
    IN  IF ~InIndex(win.avg_start) THEN [st EXCEPT !.error = "KeyError: year"]
        ELSE IF ~Broadcasts(Len(techs), Len(lifetime))
             THEN [called EXCEPT !.error = "ValueError: broadcast"]
        ELSE IF ~InIndex(win.avg_end) THEN [called EXCEPT !.error = "KeyError: year"]
        ELSE MarketOfRegion(called, full, a, win, r, lifetime, at_start,
                            fetch_avg_lifetime(lifetime, SharesOf(at_start)))

\* lines 236-250: the four lookups
WindowOf(first, second) ==
    [start |-> first.start, end |-> first.end,
     avg_start |-> second.start_avg, avg_end |-> second.end_avg]

\* lines 190-256 of one region, full being data_full
ResolveRegion(st, full, a, yr, leadtime, r, shares) ==
    MeasureRegion(st, full, a,
                  WindowOf(time_parameters(EntryOf(StartKey(a)), yr, leadtime, shares,
                                           a.range_time, a.duration),
                           time_parameters(EntryOf(AvgKey(a)), yr, leadtime, shares,
                                           a.range_time, a.duration)),
                  r)

\* the body of the loop for the region r
RegionBody(st, a, yr, leadtime, r) ==
    LET err == ResolveError(st, a, yr, leadtime, r)
        full == data_full(st.data, st.removed)
    IN  IF err # "none" THEN [st EXCEPT !.error = err]
        ELSE ResolveRegion(st, full, a, yr, leadtime, r,
                           SharesOf(SelRegionYear(full, r, yr)))

\* for region in data.coords["region"].values, until an exception leaves it
RECURSIVE RegionLoop(_, _, _, _, _)
RegionLoop(st, a, yr, leadtime, r) ==
    IF r > Len(Regions) \/ st.error # "none" THEN st
    ELSE RegionLoop(RegionBody(st, a, yr, leadtime, r), a, yr, leadtime, r + 1)

\* what the call returns or raises, and the state it leaves
Outcome(st, lead_cache_after) ==
    [result |-> IF st.error = "none" THEN Returned(st.market_shares)
                ELSE Raised(st.error),
     data |-> st.data,
     leadtime_cache |-> lead_cache_after,
     lifetime_cache |-> st.lifetime_cache,
     reads |-> st.reads,
     log |-> st.log]

\* the call consequential_method(d, yr, a) in the process state given by the
\* two caches
consequential_method(d, yr, a, lead_cache, life_cache, rd) ==
    LET techs == d.variables
        computed == get_leadtime_body(leadtimes_yaml, techs)
        leadtime == CacheResult(lead_cache, techs, computed)
        st0 == [error |-> "none",
                data |-> d,
                removed |-> FALSE,
                market_shares |-> ZeroShares(Len(techs)),
                lifetime_cache |-> life_cache,
                reads |-> IF CacheHas(lead_cache, techs) THEN rd
                          ELSE [rd EXCEPT !.leadtime = @ + 1],
                log |-> <<>>]
    IN  Outcome(RegionLoop(st0, a, yr, leadtime, 1),
                CacheAfterCall(lead_cache, techs, computed))

Run(a) ==
    \E out \in {consequential_method(data, year, a, leadtime_cache, lifetime_cache, reads)} :
        /\ args' = a
        /\ result' = out.result
        /\ data' = out.data
        /\ leadtime_cache' = out.leadtime_cache
        /\ lifetime_cache' = out.lifetime_cache
        /\ reads' = out.reads
        /\ log' = out.log
        /\ pc' = "done"
        /\ ncall' = ncall + 1
        /\ UNCHANGED <<leadtimes_yaml, lifetimes_yaml, year, data0, store_call, avg_call>>
        /\ UNCHANGED transformation_vars

\* the first call of the process
Call ==
    /\ pc = "idle"
    /\ \E a \in ArgSet : Run(a)
    /\ UNCHANGED first_result

\* the same call once more, in the same process
CallAgain ==
    /\ pc = "done"
    /\ ncall = 1
    /\ first_result' = result
    /\ Run(args)

Next ==
    \/ Call
    \/ CallAgain

Spec == Init /\ [][Next]_vars


\* ------------------------------------------------------------------------
\* Properties of consequential_method
\* ------------------------------------------------------------------------

Done == pc = "done"

Accepted == pc = "done" /\ result.kind = "returned"

Techs == 1..Len(data0.variables)

\* the share returned for technology t in region r
Share(t, r) == result.shares[t][r]

RegionShares(r) == Arr([t \in Techs |-> Share(t, r)])

InUnitInterval(x) == IsFinite(x) /\ RLe(Zero, x) /\ RLe(x, FromInt(1))

\* |x - 1| <= 1e-3
NearOne(x) == IsFinite(x) /\ RLe(Rat(999, 1000), x) /\ RLe(x, Rat(1001, 1000))

\* C1: in the returned array every share lies in [0, 1] and the shares of
\* each region sum to 1 within 1e-3 or are all exactly 0.
C1_SharesInUnitIntervalSummingToOne ==
    Accepted =>
        \A r \in RegionIdx :
            /\ \A t \in Techs : InUnitInterval(Share(t, r))
            /\ \/ NearOne(SumSeq(RegionShares(r)))
               \/ \A t \in Techs : Share(t, r) = Zero

\* the sum of a region's values after the sign based filtering
FilteredSum(r) == SumSkipNa(Kept(log[r].rounded, log[r].shrinking))

\* C2: a region whose sum after the sign based filtering is zero gets an
\* all-zero share vector, in the shrinking and in the growing branch; the
\* division yields neither an exception nor NaN or inf.
C2_ZeroSumGivesZeroVector ==
    Accepted =>
        \A r \in RegionIdx :
            FilteredSum(r) = Zero => \A t \in Techs : Share(t, r) = Zero

\* the table defines no window for the flags: one of the two keys is not in
\* it, or no entry of the second key carries "start_avg" and "end_avg"
NoWindowDefined(a) ==
    \/ ~HasKey(StartKey(a))
    \/ ~HasKey(AvgKey(a))
    \/ \A i \in 1..Len(time_parameter_keys) : time_parameter_keys[i] = AvgKey(a) => ~HasAvg(i)

\* C3: a call whose flag combination has no window defined in the table, in
\* particular range_time = 0, duration = 0, foresight, no lead_time with any
\* capital replacement rate and measurement, returns no shares: it raises,
\* and once the loop reaches the lookups it raises the KeyError of the
\* combination.
C3_UndefinedCombinationFails ==
    (Done /\ (\/ NoWindowDefined(args)
              \/ (args.range_time = 0 /\ args.duration = 0
                  /\ args.foresight /\ ~args.lead_time)))
        => /\ result.kind = "raised"
           /\ (InIndex(year) /\ Broadcasts(Len(data0.variables),
                                           Len(FilterTable(leadtimes_yaml, data0.variables))))
                 => result.error = "KeyError: combination"

C3_Witness ==
    /\ Done
    /\ args.range_time = 0 /\ args.duration = 0 /\ args.foresight /\ ~args.lead_time
    /\ args.capital_repl_rate /\ args.measurement = 4
    /\ result = Raised("KeyError: combination")


\* the market-average case: no range_time, no duration, no foresight, market
\* average lead time, horizontal baseline, slope
MarketAverageSlopeCall ==
    /\ args.range_time = 0 /\ args.duration = 0
    /\ ~args.foresight /\ ~args.lead_time
    /\ ~args.capital_repl_rate /\ args.measurement = 0

\* the average lead time of region r in the last call
AvgLeadtime(r) == log[r].win.end - year

\* the slope of technology t in region r over [year, year + L], on the series
\* the measurement reads (those of the constrained suppliers being zeroed)
SlopeOver(t, r, L) ==
    IF Constrained(data0.variables[t]) THEN Zero
    ELSE RDiv(RSub(InterpAt(data0.values[t][r], year + L),
                   InterpAt(data0.values[t][r], year)), FromInt(L))

Positive(x) == IF RLt(Zero, x) THEN x ELSE Zero

\* max(slope_t, 0) / sum over the technologies of max(slope, 0)
PositiveSlopeShare(t, r, L) ==
    RDiv(Positive(SlopeOver(t, r, L)),
         SumSeq(Arr([u \in Techs |-> Positive(SlopeOver(u, r, L))])))

\* C4: in the market-average slope case, for a region whose window is
\* [year, year + L] with L = avg_leadtime >= 1 and whose volume change over
\* the window is positive, the share of each technology t is
\* max(slope_t, 0) / sum of max(slope, 0), slope_t being (data_t[year + L] -
\* data_t[year]) / L.
C4_ShareIsPositiveSlopeOverSum ==
    (Accepted /\ MarketAverageSlopeCall) =>
        \A r \in RegionIdx :
            (/\ AvgLeadtime(r) >= 1
             /\ log[r].win.avg_start = year
             /\ log[r].win.avg_end = year + AvgLeadtime(r)
             /\ RLt(Zero, log[r].volume_change))
                => \A t \in Techs : Share(t, r) = PositiveSlopeShare(t, r, AvgLeadtime(r))

\* C5: the returned share of a technology whose label contains "CHP" or
\* "biomethane" is exactly 0 in every region of every accepted call.
C5_ConstrainedSupplierShareIsZero ==
    Accepted =>
        \A r \in RegionIdx, t \in Techs :
            Constrained(data0.variables[t]) => Share(t, r) = Zero

ZeroSeries(t, r) == \A k \in 1..Len(DataYears) : data0.values[t][r][k] = Zero

\* C6: a technology whose input series is zero in every year of a region gets
\* a share of exactly 0 there, whatever the other technologies' series.
C6_ZeroSeriesShareIsZero ==
    Accepted =>
        \A r \in RegionIdx, t \in Techs : ZeroSeries(t, r) => Share(t, r) = Zero

\* C7: the second of two calls with identical data, year and options in one
\* process returns the same shares, or raises the same error, as the first.
C7_SecondCallSameResult == (Done /\ ncall = 2) => result = first_result

C7_Witness ==
    /\ Done /\ ncall = 2
    /\ result.kind = "returned"
    /\ reads = [leadtime |-> 1, lifetime |-> 1]
    /\ \E r \in RegionIdx, t \in Techs : IsFinite(Share(t, r)) /\ RLt(Zero, Share(t, r))

\* C8: the caller's array is the same after the call as before, the series
\* of the constrained suppliers included.
C8_CallerDataUnchanged == data = data0

C8_Witness ==
    /\ Accepted
    /\ \E t \in Techs, r \in RegionIdx, k \in 1..Len(DataYears) :
          Constrained(data0.variables[t]) /\ data0.values[t][r][k] # Zero


\* ------------------------------------------------------------------------
\* fetch_avg_lifetime called directly
\* ------------------------------------------------------------------------

\* the longest pair of arrays
MaxLen == 2

\* lifetimes of the technologies, in years
LifetimeValues == {Zero, Rat(1, 2), FromInt(20), FromInt(30)}

\* shares of the technologies; NaN is the share in a market without volume
ShareValues == {NaN, Rat(-1, 3), Zero, Rat(1, 40), Rat(1, 3), Rat(1, 2), FromInt(1)}

\* the state variables the direct calls leave alone
Idle ==
    /\ data = DataOf(CHOOSE inv \in Inventories : inv.variables[3] = Biomethane,
                     [r \in RegionIdx |-> CHOOSE m \in Markets : m[1][1] = FromInt(2)])
    /\ data0 = data
    /\ leadtimes_yaml = (CHOOSE inv \in Inventories : inv.variables[3] = Biomethane).leadtimes
    /\ lifetimes_yaml = (CHOOSE inv \in Inventories : inv.variables[3] = Biomethane).lifetimes
    /\ year = 0
    /\ args = PlainArgs
    /\ pc = "idle"
    /\ ncall = 0
    /\ log = <<>>
    /\ result = None
    /\ first_result = None
    /\ leadtime_cache = <<>>
    /\ lifetime_cache = <<>>
    /\ reads = [leadtime |-> 0, lifetime |-> 0]

InitAvg ==
    /\ Idle
    /\ TransformationIdle
    /\ store_call = None
    /\ \E n \in 0..MaxLen :
          \E lifetime \in [1..n -> LifetimeValues], shares \in [1..n -> ShareValues] :
              avg_call = [kind |-> "asked", lifetime |-> lifetime, shares |-> shares]

CallAvg ==
    /\ avg_call.kind = "asked"
    /\ avg_call' = [kind |-> "returned",
                    lifetime |-> avg_call.lifetime,
                    shares |-> avg_call.shares,
                    value |-> fetch_avg_lifetime(avg_call.lifetime, avg_call.shares)]
    /\ UNCHANGED <<data, leadtimes_yaml, lifetimes_yaml, year, args, pc, ncall, log, result,
                   first_result, data0, leadtime_cache, lifetime_cache, reads, store_call>>
    /\ UNCHANGED transformation_vars

NextAvg == CallAvg

SpecAvg == InitAvg /\ [][NextAvg]_vars


\* the technologies of the direct call whose product shares * lifetime is a
\* number (the sum skips the others)
Defined(c) == {i \in 1..Len(c.shares) : ~IsNaN(c.shares[i]) /\ ~IsNaN(c.lifetime[i])}

\* the product of the denominators of the products of the technologies in I
RECURSIVE CommonDenominator(_, _)
CommonDenominator(c, I) ==
    IF I = {} THEN 1
    ELSE LET i == CHOOSE i \in I : TRUE
         IN  c.shares[i][2] * c.lifetime[i][2] * CommonDenominator(c, I \ {i})

\* the sum of the products of the technologies in I, in units of 1/den
RECURSIVE NumeratorOver(_, _, _)
NumeratorOver(c, I, den) ==
    IF I = {} THEN 0
    ELSE LET i == CHOOSE i \in I : TRUE
         IN  c.shares[i][1] * c.lifetime[i][1] * (den \div (c.shares[i][2] * c.lifetime[i][2]))
                + NumeratorOver(c, I \ {i}, den)

\* the sum over the technologies of shares * lifetime, truncated
TruncatedSum(c) ==
    LET den == CommonDenominator(c, Defined(c))
        num == NumeratorOver(c, Defined(c), den)
    IN  IF num >= 0 THEN num \div den ELSE -((-num) \div den)

\* C9: fetch_avg_lifetime returns the sum over the technologies of
\* shares * lifetime truncated to an integer, 30 when that integer is 0 (an
\* empty set of technologies included), and never 0.
C9_AvgLifetimeTruncatedOrThirty ==
    avg_call.kind = "returned" =>
        /\ avg_call.value = (IF TruncatedSum(avg_call) = 0 THEN 30 ELSE TruncatedSum(avg_call))
        /\ avg_call.value # 0
        /\ (avg_call.shares = <<>> => avg_call.value = 30)

C9_Witness ==
    /\ avg_call.kind = "returned"
    /\ avg_call.shares # <<>>
    /\ \E i \in 1..Len(avg_call.shares) :
          IsFinite(avg_call.shares[i]) /\ RLt(Zero, RMul(avg_call.shares[i], avg_call.lifetime[i]))
    /\ TruncatedSum(avg_call) = 0
    /\ avg_call.value = 30


\* ------------------------------------------------------------------------
\* get_lifetime and get_leadtime called directly
\* ------------------------------------------------------------------------

\* the tuples asked for are Key(0), which is asked for again and again, and
\* Key(1) .. Key(MaxKeys), each asked for once, in this order
MaxKeys == 130

\* the length of a tuple of labels
KeyLen == 8

\* the i-th tuple: Gas where the binary numeral of i has a 0, Wind where it
\* has a 1; different numbers give different tuples
RECURSIVE Power2(_)
Power2(k) == IF k = 0 THEN 1 ELSE 2 * Power2(k - 1)

Key(i) == [k \in 1..KeyLen |-> IF (i \div Power2(k - 1)) % 2 = 0 THEN Gas ELSE Wind]

\* store_call holds the function under call, the number of tuples Key(1)..
\* asked for so far, whether Key(0) was asked for and the number of other
\* tuples asked for since, and the last call
InitCache ==
    /\ Idle
    /\ TransformationIdle
    /\ avg_call = None
    /\ \E fn \in {"get_lifetime", "get_leadtime"} :
          store_call = [fn |-> fn, fresh |-> 0, asked |-> FALSE, since |-> 0, last |-> None]

\* the tuples the next call can be made with
NextKeys == {0} \cup {i \in {store_call.fresh + 1} : i <= MaxKeys}

\* the bookkeeping of a call with Key(i) that found `cache` and computed `value`
AfterStoreCall(i, cache, value) ==
    [fn |-> store_call.fn,
     fresh |-> IF i = 0 THEN store_call.fresh ELSE i,
     asked |-> store_call.asked \/ i = 0,
     since |-> IF i = 0 THEN 0
               ELSE IF store_call.asked THEN store_call.since + 1 ELSE 0,
     last |-> [kind |-> "returned",
               key |-> Key(i),
               again |-> (i = 0 /\ store_call.asked),
               others |-> store_call.since,
               opened |-> ~CacheHas(cache, Key(i)),
               value |-> CacheResult(cache, Key(i), value)]]

get_lifetime ==
    /\ store_call # None /\ store_call.fn = "get_lifetime"
    /\ \E i \in NextKeys :
          \E value \in {get_lifetime_body(lifetimes_yaml, Key(i))} :
              /\ store_call' = AfterStoreCall(i, lifetime_cache, value)
              /\ lifetime_cache' = CacheAfterCall(lifetime_cache, Key(i), value)
              /\ reads' = IF CacheHas(lifetime_cache, Key(i)) THEN reads
                          ELSE [reads EXCEPT !.lifetime = @ + 1]
    /\ UNCHANGED <<data, leadtimes_yaml, lifetimes_yaml, year, args, pc, ncall, log, result,
                   first_result, data0, leadtime_cache, avg_call>>
    /\ UNCHANGED transformation_vars

get_leadtime ==
    /\ store_call # None /\ store_call.fn = "get_leadtime"
    /\ \E i \in NextKeys :
          \E value \in {get_leadtime_body(leadtimes_yaml, Key(i))} :
              /\ store_call' = AfterStoreCall(i, leadtime_cache, value)
              /\ leadtime_cache' = CacheAfterCall(leadtime_cache, Key(i), value)
              /\ reads' = IF CacheHas(leadtime_cache, Key(i)) THEN reads
                          ELSE [reads EXCEPT !.leadtime = @ + 1]
    /\ UNCHANGED <<data, leadtimes_yaml, lifetimes_yaml, year, args, pc, ncall, log, result,
                   first_result, data0, lifetime_cache, avg_call>>
    /\ UNCHANGED transformation_vars

NextCache ==
    \/ get_lifetime
    \/ get_leadtime

SpecCache == InitCache /\ [][NextCache]_vars

\* the last direct call was made with a tuple asked for before
AskedAgain == store_call # None /\ store_call.last # None /\ store_call.last.again

\* the value the function computes from the table for the tuple of the last call
Computed ==
    IF store_call.fn = "get_lifetime"
    THEN get_lifetime_body(lifetimes_yaml, store_call.last.key)
    ELSE get_leadtime_body(leadtimes_yaml, store_call.last.key)

\* the last call was served from the cache: the table was not opened
ServedFromCache == ~store_call.last.opened /\ store_call.last.value = Computed

MaxTuple == 3

Labels == {Gas, Wind, GasCHP, Biomethane}

\* the tuples of distinct labels of length n
TuplesOf(n) == {t \in [1..n -> Labels] : \A i, j \in 1..n : t[i] = t[j] => i = j}

\* the tuples with the labels of t in any order
PermutationsOf(t) ==
    {u \in [1..Len(t) -> Labels] : \A i \in 1..Len(t) :
        (\E j \in 1..Len(t) : u[j] = t[i]) /\ (\E j \in 1..Len(t) : t[j] = u[i])}

InitStore ==
    /\ \E inv \in Inventories :
          /\ data = DataOf(inv, [r \in RegionIdx |-> CHOOSE m \in Markets : m[1][1] = FromInt(2)])
          /\ leadtimes_yaml = inv.leadtimes
          /\ lifetimes_yaml = inv.lifetimes
    /\ data0 = data
    /\ year = 0
    /\ args = PlainArgs
    /\ pc = "idle"
    /\ TransformationIdle
    /\ ncall = 0
    /\ log = <<>>
    /\ result = None
    /\ first_result = None
    /\ leadtime_cache = <<>>
    /\ lifetime_cache = <<>>
    /\ reads = [leadtime |-> 0, lifetime |-> 0]
    /\ avg_call = None
    /\ \E fn \in {"get_lifetime", "get_leadtime"}, n \in 0..MaxTuple :
          \E t \in TuplesOf(n) :
              store_call = [kind |-> "asked", fn |-> fn, list_tech |-> t]

\* the tuples of the next call: the one asked for, then its permutations
NextTuples ==
    IF store_call.kind = "asked" THEN {store_call.list_tech}
    ELSE IF store_call.kind = "returned" THEN PermutationsOf(store_call.list_tech)
    ELSE {}

\* the record of a call with list_tech that returned value
AfterTupleCall(list_tech, value) ==
    [kind |-> IF store_call.kind = "asked" THEN "returned" ELSE "returned again",
     fn |-> store_call.fn,
     list_tech |-> list_tech,
     value |-> value,
     first |-> IF store_call.kind = "asked" THEN [list_tech |-> list_tech, value |-> value]
               ELSE store_call.first]

get_lifetime_tuple ==
    /\ store_call.fn = "get_lifetime"
    /\ \E list_tech \in NextTuples :
          \E value \in {get_lifetime_body(lifetimes_yaml, list_tech)} :
              /\ store_call' = AfterTupleCall(list_tech,
                                              CacheResult(lifetime_cache, list_tech, value))
              /\ lifetime_cache' = CacheAfterCall(lifetime_cache, list_tech, value)
              /\ reads' = IF CacheHas(lifetime_cache, list_tech) THEN reads
                          ELSE [reads EXCEPT !.lifetime = @ + 1]
    /\ UNCHANGED <<data, leadtimes_yaml, lifetimes_yaml, year, args, pc, ncall, log, result,
                   first_result, data0, leadtime_cache, avg_call>>
    /\ UNCHANGED transformation_vars

get_leadtime_tuple ==
    /\ store_call.fn = "get_leadtime"
    /\ \E list_tech \in NextTuples :
          \E value \in {get_leadtime_body(leadtimes_yaml, list_tech)} :
              /\ store_call' = AfterTupleCall(list_tech,
                                              CacheResult(leadtime_cache, list_tech, value))
              /\ leadtime_cache' = CacheAfterCall(leadtime_cache, list_tech, value)
              /\ reads' = IF CacheHas(leadtime_cache, list_tech) THEN reads
                          ELSE [reads EXCEPT !.leadtime = @ + 1]
    /\ UNCHANGED <<data, leadtimes_yaml, lifetimes_yaml, year, args, pc, ncall, log, result,
                   first_result, data0, lifetime_cache, avg_call>>
    /\ UNCHANGED transformation_vars

NextStore ==
    \/ get_lifetime_tuple
    \/ get_leadtime_tuple

SpecStore == InitStore /\ [][NextStore]_vars

\* the table the function of the direct call reads
TableOfCall == IF store_call.fn = "get_lifetime" THEN lifetimes_yaml ELSE leadtimes_yaml

\* the positions of the table whose key is a label of the tuple of the call
KeysAsked ==
    {i \in 1..Len(TableOfCall) :
        \E k \in 1..Len(store_call.list_tech) : store_call.list_tech[k] = TableOfCall[i][1]}

\* C11: get_lifetime(T) and get_leadtime(T) return the values of exactly the
\* table keys that are members of T, in the order of the table: one entry per
\* label of T present in the table, and the same values for a permutation
\* of T.
C11_TableOrderWhateverCallerOrder ==
    store_call.kind \in {"returned", "returned again"} =>
        /\ Len(store_call.value) = Cardinality(KeysAsked)
        /\ \A i \in KeysAsked :
              store_call.value[Cardinality({j \in KeysAsked : j <= i})] = TableOfCall[i][2]
        /\ Len(store_call.value) =
              Cardinality({k \in 1..Len(store_call.list_tech) :
                              \E i \in 1..Len(TableOfCall) :
                                  TableOfCall[i][1] = store_call.list_tech[k]})
        /\ store_call.value = store_call.first.value

C11_Witness ==
    /\ store_call.kind = "returned again"
    /\ store_call.list_tech # store_call.first.list_tech
    /\ Len(store_call.value) = 2
    /\ Len(store_call.list_tech) = 3
    /\ store_call.value[1] # store_call.value[2]
    /\ \E i \in KeysAsked : store_call.list_tech[1] = TableOfCall[i][1] /\ i > 1


\* ------------------------------------------------------------------------
\* Properties of the window resolution and of the measurement
\* ------------------------------------------------------------------------

\* some setting of range_time, duration, foresight and lead_time makes the
\* call with the pair (capital_repl_rate, measurement) return shares, on the
\* data and in the year of the state
Executes(crr, m) ==
    \E a \in ArgSet :
        /\ a.capital_repl_rate = crr
        /\ a.measurement = m
        /\ consequential_method(data, year, a, leadtime_cache, lifetime_cache,
                                reads).result.kind = "returned"

\* C12: for each of the ten pairs (capital_replacement_rate, measurement in
\* 0..4) some setting of range_time, duration, foresight and lead_time
\* resolves the window and returns shares (on data for which a call returns
\* shares at all).
C12_EveryPairHasAnAcceptedSetting ==
    (pc = "idle" /\ \E crr \in BOOLEAN, m \in Measurements : Executes(crr, m))
        => \A crr \in BOOLEAN, m \in Measurements : Executes(crr, m)


\* a year before the first or after the last year of the data
OutsideData(y) == y < minimum \/ y > maximum

\* the lead times the call reads for the technologies of the data
LeadtimeOfCall == get_leadtime_body(leadtimes_yaml, data0.variables)

\* the lookups of the call succeed and the lead times fit the technologies
Resolved ==
    /\ Resolves(args)
    /\ Broadcasts(Len(data0.variables), Len(LeadtimeOfCall))

\* the averaging window of the region r, from the caller's data: the entry
\* that (range_time, duration, foresight, lead_time) selects, with the shares
\* of the target year (of the data without its constrained suppliers from the
\* second region on)
AvgWindow(r) ==
    LET full == data_full(data0, r > 1)
        shares == SharesOf(SelRegionYear(full, r, year))
        entry == time_parameters(EntryOf(AvgKey(args)), year, LeadtimeOfCall, shares,
                                 args.range_time, args.duration)
    IN  [avg_start |-> entry.start_avg, avg_end |-> entry.end_avg]

\* the target year is inside the data and a year the call samples for some
\* region is not
SamplesOutsideData ==
    /\ ~OutsideData(year)
    /\ Resolved
    /\ \E r \in RegionIdx :
          OutsideData(AvgWindow(r).avg_start) \/ OutsideData(AvgWindow(r).avg_end)

\* C13: a call whose target year, or whose sampled window year (avg_start,
\* avg_end) of some region, lies outside [min data year, max data year] fails
\* and returns no shares.
C13_YearOutsideDataFails ==
    (Done /\ (OutsideData(year) \/ SamplesOutsideData)) => result.kind = "raised"

\* a call in a year of the data whose averaging window ends after the data
C13_Witness ==
    /\ Done
    /\ ~OutsideData(year)
    /\ Resolved
    /\ \E r \in RegionIdx : AvgWindow(r).avg_end > maximum
    /\ result.kind = "raised"


\* C14: every returned share is rounded to 3 decimals and is neither NaN nor
\* infinite (rounding and the replacement of inf and NaN being the last
\* transformations).
C14_ReturnedSharesRoundedAndFinite ==
    Accepted =>
        \A t \in Techs, r \in RegionIdx :
            /\ IsFinite(Share(t, r))
            /\ Round3(Share(t, r)) = Share(t, r)


\* the target year is far enough inside the data for a window of the table
\* to lie inside it: a year after the first, 30 years before the last
WellInside(y) == minimum < y /\ y + 30 <= maximum

\* the lead times read fit the technologies of the data
LeadtimesFit == Broadcasts(Len(data0.variables), Len(LeadtimeOfCall))

\* the table has an entry for the flags of both lookups
BothKeysDefined == HasKey(StartKey(args)) /\ HasKey(AvgKey(args))

\* the width of the interval the growth of region r was measured over
MeasuredWidth(r) == log[r].win.avg_end - log[r].win.avg_start

\* C15: with range_time > 0, duration = 0 and a flag combination that has
\* entries in the table, the call does not fail and measures every region
\* over a window of half-width range_time.
C15_RangeTimeWindowMeasured ==
    (Done /\ args.range_time > 0 /\ args.duration = 0 /\ BothKeysDefined
          /\ WellInside(year) /\ LeadtimesFit)
        => /\ result.kind = "returned"
           /\ \A r \in RegionIdx : MeasuredWidth(r) = 2 * args.range_time

\* C16: with duration > 0 and a flag combination that has an entry in the
\* table, the call does not fail and measures every region over a window of
\* width duration.
C16_DurationWindowMeasured ==
    (Done /\ args.duration > 0 /\ HasKey(StartKey(args))
          /\ WellInside(year) /\ LeadtimesFit)
        => /\ result.kind = "returned"
           /\ \A r \in RegionIdx : MeasuredWidth(r) = args.duration


\* the shares of the target year in region r, as line 190 computes them
SharesAtYear(r) == SharesOf(SelRegionYear(data_full(data0, r > 1), r, year))

\* the share weighted lead time of region r, truncated to an integer
AvgLeadtimeAtYear(r) == fetch_avg_leadtime(LeadtimeOfCall, SharesAtYear(r))

\* the interval the growth of region r was measured over
MeasuredInterval(r) == <<log[r].win.avg_start, log[r].win.avg_end>>

\* range_time = 0, duration = 0, foresight, capital replacement rate and
\* lead time off
NoFlags ==
    /\ args.range_time = 0
    /\ args.duration = 0
    /\ ~args.foresight
    /\ ~args.capital_repl_rate
    /\ ~args.lead_time

\* C17: with range_time = 0, duration = 0 and foresight, capital replacement
\* rate and lead time off, the growth of every region is measured over
\* [year, year + avg_leadtime], avg_leadtime being the truncated share
\* weighted lead time, whatever its value (0 included).
C17_MeasuredOverAvgLeadtime ==
    (Accepted /\ NoFlags) =>
        \A r \in RegionIdx :
            MeasuredInterval(r) = <<year, year + AvgLeadtimeAtYear(r)>>


\* the lifetimes the call reads for the technologies of the data
LifetimeOfCall == get_lifetime_body(lifetimes_yaml, data0.variables)

\* the share weighted lifetime of region r, with the shares of the target year
AvgLifetimeAtYear(r) == fetch_avg_lifetime(LifetimeOfCall, SharesAtYear(r))

\* range_time = 0, duration = 0, foresight, capital replacement rate and
\* lead time on
AllFlags ==
    /\ args.range_time = 0
    /\ args.duration = 0
    /\ args.foresight
    /\ args.capital_repl_rate
    /\ args.lead_time

\* C18: with foresight, capital replacement rate and lead time on
\* (range_time = 0, duration = 0) the growth window of every region is
\* [year - avg_leadtime, year] and its averaging window is
\* [year - avg_leadtime, year + avg_lifetime], avg_lifetime being the share
\* weighted average of the lifetimes of the technologies.
C18_ForesightWindows ==
    (Accepted /\ AllFlags) =>
        \A r \in RegionIdx :
            /\ log[r].win.start = year - AvgLeadtimeAtYear(r)
            /\ log[r].win.end = year
            /\ log[r].win.avg_start = year - AvgLeadtimeAtYear(r)
            /\ log[r].win.avg_end = year + AvgLifetimeAtYear(r)


\* the entries of the table whose start or end is one year per technology
PerTechnology(i) == i \in {3, 6, 10}

\* start < end for the growth window of the entry i, for every technology
\* when the entry is per technology
StartBeforeEnd(i, win) ==
    CASE i = 3 -> \A t \in DOMAIN win.end : RLt(FromInt(win.start), win.end[t])
      [] i \in {6, 10} -> \A t \in DOMAIN win.end : RLt(win.start[t], win.end[t])
      [] OTHER -> win.start < win.end

\* C19: in every call that resolves its windows, for every region, the growth
\* window has start < end (for every technology when it is per technology)
\* and the averaging window has avg_start < avg_end, also when the share
\* weighted lead time truncates to 0.
C19_WindowsNotDegenerate ==
    Accepted =>
        \A r \in RegionIdx :
            /\ StartBeforeEnd(EntryOf(StartKey(args)), log[r].win)
            /\ log[r].win.avg_start < log[r].win.avg_end


\* max(x, 0)
MaxZero(x) == IF RLt(Zero, x) THEN x ELSE Zero

\* the baseline of the volume change of region r: 0, or the average capital
\* replacement rate when the capital replacement rate is on
Baseline(r) == IF args.capital_repl_rate THEN log[r].avg_cap_repl_rate ELSE Zero

\* the volume change of region r is strictly below its baseline
BelowBaseline(r) == RLt(log[r].volume_change, Baseline(r))

\* the part of the value x that counts in region r: max(-x, 0) in a
\* shrinking market, max(x, 0) otherwise
Counted(r, x) == IF BelowBaseline(r) THEN MaxZero(RNeg(x)) ELSE MaxZero(x)

\* the sum over the technologies of the counted parts of the values vec
CountedSum(r, vec) == SumSeq(Arr([t \in 1..Len(vec) |-> Counted(r, vec[t])]))

\* every value of vec is a finite number
AllFinite(vec) == \A t \in 1..Len(vec) : IsFinite(vec[t])

\* C20: per region, with the raw measurement r_t of technology t, the final
\* share of t is max(-r_t, 0) / sum of max(-r, 0) when the volume change is
\* strictly below the baseline, and max(r_t, 0) / sum of max(r, 0) otherwise
\* (regions with finite raw values whose counted sum is not 0).
C20_ShareIsCountedRawOverSum ==
    Accepted =>
        \A r \in RegionIdx :
            (AllFinite(log[r].raw) /\ CountedSum(r, log[r].raw) # Zero) =>
                \A t \in Techs :
                    Share(t, r) = RDiv(Counted(r, log[r].raw[t]),
                                       CountedSum(r, log[r].raw))


\* ------------------------------------------------------------------------
\* Properties of the region loop
\* ------------------------------------------------------------------------

\* the regions r and q of the caller's data carry the same series
SameSeries(r, q) == \A t \in Techs : data0.values[t][r] = data0.values[t][q]

\* the caller's data with the series of the constrained suppliers zeroed
\* before the call
ZeroedBeforeLoop ==
    [data0 EXCEPT !.values = remove_constrained_suppliers(data0.variables, data0.values)]

\* what the same call returns or raises on the data zeroed before the loop
ResultOnZeroed ==
    consequential_method(ZeroedBeforeLoop, year, args, <<>>, <<>>, reads).result

\* C21: the shares returned for a region depend only on its series, the year
\* and the options: two regions with the same series get the same shares
\* whatever their position in the loop, and every region gets the shares the
\* call yields when the constrained suppliers are zeroed once before the loop.
C21_RegionSharesIndependentOfPosition ==
    Accepted =>
        /\ \A r, q \in RegionIdx :
              SameSeries(r, q) => RegionShares(r) = RegionShares(q)
        /\ ResultOnZeroed.kind = "returned"
        /\ \A r \in RegionIdx, t \in Techs :
              Share(t, r) = ResultOnZeroed.shares[t][r]


\* ------------------------------------------------------------------------
\* The branches of measurement 2 (area) and 4 (split years), lines 317-347,
\* 478-522, 385-429 and 565-629, run on a window that is already resolved.
\* No call of consequential_method gets there (the lookup of lines 238-243
\* fails for these measurements), so they are run from the top of the branch.
\* ------------------------------------------------------------------------

\* the widest window measured
MaxWindow == 3

\* a ^ b of Python on non-negative integers: bitwise exclusive or
RECURSIVE BitXor(_, _)
BitXor(a, b) ==
    IF a = 0 THEN b
    ELSE IF b = 0 THEN a
    ELSE (((a % 2) + (b % 2)) % 2) + 2 * BitXor(a \div 2, b \div 2)

\* ((avg_end - avg_start) ^ 2), line 516
WindowTerm(a, b) == BitXor(a, b)

\* the sum over the years avg_start..avg_end of every series of region r
\* (where(year >= avg_start).where(year <= avg_end).sum(dim="year"))
SumOverWindow(full, r, avg_start, avg_end) ==
    Arr([t \in DOMAIN full |->
            SumSkipNa(Arr([i \in 1..(avg_end - avg_start + 1) |->
                              full[t][r][avg_start + i - 1]]))])

\* total_area - baseline_area, lines 485-504
AreaMeasure(full, r, avg_start, avg_end) ==
    LET coeff_c == SumOverWindow(full, r, avg_start, avg_end)
        n == avg_end - avg_start
    IN  Arr([t \in DOMAIN full |->
                LET total_area ==
                        RMul(Rat(1, 2),
                             RSub(RSub(RMul(FromInt(2), coeff_c[t]), full[t][r][avg_end]),
                                  full[t][r][avg_start]))
                    baseline_area == RMul(full[t][r][avg_start], FromInt(n))
                IN  RSub(total_area, baseline_area)])

\* the vector of lines 512-518: the capital replacement rates times
\* ((avg_end - avg_start) ^ 2) times 0.5
AreaCapReplRate(full, lifetime, r, avg_start, avg_end) ==
    LET rates == fetch_capital_replacement_rates(lifetime,
                                                 SelRegionYear(full, r, avg_start))
    IN  Arr([t \in 1..Len(rates) |->
                RMul(RMul(rates[t], FromInt(WindowTerm(avg_end - avg_start, 2))),
                     Rat(1, 2))])

\* +inf and NaN replaced by 0 (no rounding)
Clean(vec) ==
    Arr([t \in 1..Len(vec) |->
            IF vec[t] = <<1, 0>> \/ IsNaN(vec[t]) THEN Zero ELSE vec[t]])

AddArr(a, b) == Arr([t \in 1..Len(a) |-> RAdd(a[t], b[t])])

\* np.clip(cap_repl_rate, None, max_cap_repl_rate), max being data / n
ClippedRates(full, lifetime, r, avg_start, avg_end) ==
    LET at_start == SelRegionYear(full, r, avg_start)
        rates == fetch_capital_replacement_rates(lifetime, at_start)
    IN  Arr([t \in 1..Len(rates) |->
                LET most == RDiv(at_start[t], FromInt(avg_end - avg_start))
                IN  IF RLt(most, rates[t]) THEN most ELSE rates[t]])

\* market_shares_split of the split year s, after its cleanup
SplitOfYear(full, lifetime, crr, r, avg_start, avg_end, s) ==
    LET delta == Arr([t \in DOMAIN full |-> RSub(full[t][r][s + 1], full[t][r][s])])
        rates == ClippedRates(full, lifetime, r, avg_start, avg_end)
    IN  Clean(IF crr THEN Arr([t \in 1..Len(delta) |-> RSub(delta[t], rates[t])])
              ELSE delta)

\* one turn of the loop over the split years.  In a shrinking market the
\* filter, the sign reversal and the division are applied to market_shares,
\* the accumulator, and the split is added as it is; otherwise they are
\* applied to the split
SplitStep(acc, split, shrinking) ==
    IF shrinking THEN AddArr(FilterAndNormalise(acc, TRUE), split)
    ELSE AddArr(acc, FilterAndNormalise(split, FALSE))

RECURSIVE SplitLoop(_, _, _, _, _, _, _, _)
SplitLoop(acc, full, lifetime, crr, shrinking, r, win, s) ==
    IF s >= win.avg_end THEN acc
    ELSE SplitLoop(SplitStep(acc,
                             SplitOfYear(full, lifetime, crr, r, win.avg_start,
                                         win.avg_end, s),
                             shrinking),
                   full, lifetime, crr, shrinking, r, win, s + 1)

\* the branch of measurement 4: the accumulator after the loop, divided by n
SplitMeasure(full, lifetime, crr, shrinking, r, win) ==
    LET acc == SplitLoop(Arr([t \in DOMAIN full |-> Zero]), full, lifetime, crr,
                         shrinking, r, win, win.avg_start)
    IN  Arr([t \in 1..Len(acc) |-> RDiv(acc[t], FromInt(win.avg_end - win.avg_start))])


\* lines 266-629 of the first region for measurement 2 or 4, on the window
\* win: the locals of the iteration, as the log of a call keeps them
MeasureBranch(d, a, win) ==
    LET lifetime == get_lifetime_body(lifetimes_yaml, d.variables)
        at_start == SelRegionYear(data_full(d, FALSE), 1, win.avg_start)
        avg_lifetime == fetch_avg_lifetime(lifetime, SharesOf(at_start))
        avg_cap_repl_rate == fetch_avg_capital_replacement_rate(avg_lifetime, at_start)
        volume_change == fetch_volume_change(data_full(d, FALSE), 1,
                                             win.avg_start, win.avg_end)
        shrinking == Shrinking(a, volume_change, avg_cap_repl_rate)
        full == data_full(d, TRUE)
        area == AreaMeasure(full, 1, win.avg_start, win.avg_end)
        subtracted == AreaCapReplRate(full, lifetime, 1, win.avg_start, win.avg_end)
        raw == IF a.measurement = 4
               THEN SplitMeasure(full, lifetime, a.capital_repl_rate, shrinking, 1, win)
               ELSE IF a.capital_repl_rate
                    THEN Arr([t \in 1..Len(area) |-> RSub(area[t], subtracted[t])])
                    ELSE area
    IN  [win |-> win,
         avg_lifetime |-> avg_lifetime,
         avg_cap_repl_rate |-> avg_cap_repl_rate,
         volume_change |-> volume_change,
         shrinking |-> shrinking,
         subtracted |-> subtracted,
         raw |-> raw,
         rounded |-> RoundAndClean(raw)]

\* the program at the top of the branch of measurement 2 or 4 in the first
\* region: both regions carry the same market, the window starts in the
\* target year and is 1..MaxWindow years wide
InitMeasure ==
    /\ \E inv \in Inventories, m \in Markets :
          /\ data = DataOf(inv, [r \in RegionIdx |-> m])
          /\ leadtimes_yaml = inv.leadtimes
          /\ lifetimes_yaml = inv.lifetimes
    /\ data0 = data
    /\ year \in 0..MaxYear
    /\ \E crr \in BOOLEAN, m \in {2, 4} :
          args = [PlainArgs EXCEPT !.capital_repl_rate = crr, !.measurement = m]
    /\ \E n \in 1..MaxWindow :
          log = << [win |-> [start |-> year, end |-> year + n,
                             avg_start |-> year, avg_end |-> year + n]] >>
    /\ pc = "measuring"
    /\ TransformationIdle
    /\ ncall = 0
    /\ result = None
    /\ first_result = None
    /\ leadtime_cache = <<>>
    /\ lifetime_cache = <<>>
    /\ reads = [leadtime |-> 0, lifetime |-> 0]
    /\ store_call = None
    /\ avg_call = None

Measure ==
    /\ pc = "measuring"
    /\ \E out \in {MeasureBranch(data, args, log[1].win)} : log' = <<out>>
    /\ pc' = "measured"
    /\ UNCHANGED <<data, leadtimes_yaml, lifetimes_yaml, year, args, ncall, result,
                   first_result, data0, leadtime_cache, lifetime_cache, reads,
                   store_call, avg_call>>
    /\ UNCHANGED transformation_vars

NextMeasure == Measure

SpecMeasure == InitMeasure /\ [][NextMeasure]_vars

Measured(m) == pc = "measured" /\ args.measurement = m

\* the window length of the measured region
WindowLength == log[1].win.avg_end - log[1].win.avg_start

\* -data[avg_start] / lifetime of technology t, on the data the branch reads
RateOf(t) ==
    RDiv(RNeg(data_full(data0, TRUE)[t][1][log[1].win.avg_start]),
         get_lifetime_body(lifetimes_yaml, data0.variables)[t])

SplitYears == log[1].win.avg_start..(log[1].win.avg_end - 1)

\* the delta vector of the split year s: data[s + 1] - data[s], less the
\* capital replacement rate when it is on
DeltaOfYear(s) ==
    Arr([t \in Techs |->
            LET delta == RSub(data_full(data0, TRUE)[t][1][s + 1],
                              data_full(data0, TRUE)[t][1][s])
            IN  IF args.capital_repl_rate THEN RSub(delta, RateOf(t)) ELSE delta])

\* the delta vector of the split year s filtered by sign and renormalised on
\* its own
ContributionOfYear(s) ==
    Arr([t \in Techs |->
            RDiv(Counted(1, DeltaOfYear(s)[t]), CountedSum(1, DeltaOfYear(s)))])

\* the sum of the contributions of the split years from s on
RECURSIVE ContributionsFrom(_)
ContributionsFrom(s) ==
    IF s >= log[1].win.avg_end THEN Arr([t \in Techs |-> Zero])
    ELSE AddArr(ContributionOfYear(s), ContributionsFrom(s + 1))

MaxDatasets == 2

MaxExchanges == 2

\* (name, location, reference product, unit) of a dataset
DatasetKeys == {"market for heat, DE", "market for heat, FR"}

\* production volumes, in units of 1e-9
Volumes == {Zero, Rat(1, 2), FromInt(3)}

\* 1e-9 in these units
MinimumVolume == FromInt(1)

\* an exchange: its type and its "production volume" field, if it has one
Exchanges ==
    [type : {"production"}, has_volume : {TRUE}, volume : Volumes]
        \cup [type : {"production"}, has_volume : {FALSE}, volume : {Zero}]
        \cup [type : {"technosphere"}, has_volume : {TRUE}, volume : {FromInt(3)}]

SeqsUpTo(S, n) == UNION {[1..k -> S] : k \in 0..n}

Datasets == [key : DatasetKeys, exchanges : SeqsUpTo(Exchanges, MaxExchanges)]

\* ws.production(act): the production exchanges of a dataset
production(act) == SelectSeq(act.exchanges, LAMBDA exc : exc.type = "production")

\* max(float(exc.get("production volume", 1e-9)), 1e-9)
production_volume(exc) ==
    LET got == IF exc.has_volume THEN exc.volume ELSE MinimumVolume
    IN  IF RLt(got, MinimumVolume) THEN MinimumVolume ELSE got

\* a dict as the sequence of its (key, value) pairs in insertion order
DictHas(dict, key) == \E i \in 1..Len(dict) : dict[i][1] = key

\* dict[key] = value
DictSet(dict, key, value) ==
    IF DictHas(dict, key)
    THEN [i \in 1..Len(dict) |-> IF dict[i][1] = key THEN <<key, value>> ELSE dict[i]]
    ELSE Append(dict, <<key, value>>)

\* the loop over the production exchanges of one dataset, from the i-th on:
\* dict_act and total_production_volume after it
RECURSIVE ExchangeLoop(_, _, _, _)
ExchangeLoop(acc, key, excs, i) ==
    IF i > Len(excs) THEN acc
    ELSE ExchangeLoop([dict_act |-> DictSet(acc.dict_act, key, production_volume(excs[i])),
                       total |-> RAdd(acc.total, production_volume(excs[i]))],
                      key, excs, i + 1)

\* the loop over the datasets, from the i-th on
RECURSIVE DatasetLoop(_, _, _)
DatasetLoop(acc, ds_list, i) ==
    IF i > Len(ds_list) THEN acc
    ELSE DatasetLoop(ExchangeLoop(acc, ds_list[i].key, production(ds_list[i]), 1),
                     ds_list, i + 1)

get_shares_from_production_volume(ds_list) ==
    LET acc == DatasetLoop([dict_act |-> <<>>, total |-> Zero], ds_list, 1)
    IN  [i \in 1..Len(acc.dict_act) |->
            <<acc.dict_act[i][1], RDiv(acc.dict_act[i][2], acc.total)>>]

InitShares ==
    /\ Idle
    /\ store_call = None
    /\ avg_call = None
    /\ self_cache = <<>>
    /\ relinked = None
    /\ \E n \in 1..MaxDatasets :
          \E ds_list \in [1..n -> Datasets] :
              shares_call = [kind |-> "asked", ds_list |-> ds_list]

CallShares ==
    /\ shares_call.kind = "asked"
    /\ shares_call' = [kind |-> "returned",
                       ds_list |-> shares_call.ds_list,
                       value |-> get_shares_from_production_volume(shares_call.ds_list)]
    /\ UNCHANGED <<data, leadtimes_yaml, lifetimes_yaml, year, args, pc, ncall, log, result,
                   first_result, data0, leadtime_cache, lifetime_cache, reads, store_call,
                   avg_call, self_cache, relinked>>

NextShares == CallShares

SpecShares == InitShares /\ [][NextShares]_vars

\* the list of the call holds a production exchange
HasProduction ==
    \E i \in 1..Len(shares_call.ds_list) : production(shares_call.ds_list[i]) # <<>>

\* the sum of the shares returned
TotalOfShares ==
    SumSeq([i \in 1..Len(shares_call.value) |-> shares_call.value[i][2]])

\* C24: the shares returned for a non-empty list of datasets with at least
\* one production exchange total 1, also when two datasets have the same
\* (name, location, reference product, unit) or a dataset has several
\* production exchanges.
C24_SharesTotalOne ==
    (shares_call.kind = "returned" /\ HasProduction) => TotalOfShares = FromInt(1)


\* ------------------------------------------------------------------------
\* Properties of the pairing of technologies with their parameters
\* ------------------------------------------------------------------------

TableHas(table, v) == \E i \in 1..Len(table) : table[i][1] = v

\* the value the table gives for the label v
TableValue(table, v) == table[CHOOSE i \in 1..Len(table) : table[i][1] = v][2]

\* the k-th element of vec is the table value of the k-th technology of the
\* data, for every technology that has an entry in the table
PairedWithOwn(vec, table) ==
    \A k \in Techs :
        TableHas(table, data0.variables[k]) =>
            /\ k <= Len(vec)
            /\ vec[k] = TableValue(table, data0.variables[k])

\* C25: in a call, the k-th element of the lead time vector and of the
\* lifetime vector is the table value of the k-th technology of the data
\* array, whatever the order of the technologies and whether or not every
\* technology has an entry in the tables.
C25_VectorsPairedWithTechnologies ==
    Done =>
        /\ PairedWithOwn(CacheGet(leadtime_cache, data0.variables), leadtimes_yaml)
        /\ CacheHas(lifetime_cache, data0.variables) =>
              PairedWithOwn(CacheGet(lifetime_cache, data0.variables), lifetimes_yaml)


\* ------------------------------------------------------------------------
\* transformation.py: BaseTransformation.relink_technosphere_exchanges and
\* write_cache.  An exchange is the record of its columns; self.cache is the
\* sequence of its entries [cons_loc, key, value].
\* ------------------------------------------------------------------------

\* calls of relink_technosphere_exchanges on one object
MaxRelinks == 2

\* the production datasets of self.database: heat has two producers, steam
\* has none
Database ==
    << [cons_name |-> "heat production", cons_prod |-> "heat", cons_loc |-> "DE",
        cons_key |-> "key of heat production, DE", cons_prod_vol |-> FromInt(3)],
       [cons_name |-> "heat production", cons_prod |-> "heat", cons_loc |-> "FR",
        cons_key |-> "key of heat production, FR", cons_prod_vol |-> FromInt(1)] >>

\* the technosphere exchanges of the datasets to relink: a building in DE or
\* in the region WEU that takes heat or steam from RER.  The unit is a unit
\* label and prod_key the key of the supplying dataset
TechnosphereExchanges ==
    { [cons_name |-> "building", cons_prod |-> "building", cons_loc |-> loc,
       cons_key |-> "key of building", prod_name |-> p[1], prod_prod |-> p[2],
       prod_loc |-> "RER", prod_key |-> p[3], unit |-> "megajoule",
       amount |-> FromInt(1)] :
         loc \in {"DE", "WEU"},
         p \in { <<"heat production", "heat", "key of heat production, RER">>,
                 <<"steam production", "steam", "key of steam production, RER">> } }

\* the key read at lines 382-395
LookupKey(exc) == <<exc.prod_name, exc.prod_prod, exc.prod_loc, exc.unit>>

\* the key written at lines 485-491
WrittenKey(exc) == <<exc.prod_name, exc.prod_prod, exc.prod_loc, exc.prod_key>>

\* exc.cons_loc in self.cache and the key in self.cache[exc.cons_loc]
InCache(c, exc) ==
    \E i \in 1..Len(c) : c[i].cons_loc = exc.cons_loc /\ c[i].key = LookupKey(exc)

FromCache(c, exc) ==
    (CHOOSE e \in {c[i] : i \in 1..Len(c)} :
        e.cons_loc = exc.cons_loc /\ e.key = LookupKey(exc)).value

\* write_cache(exc, allocated, share)
write_cache(c, exc, allocated, share) ==
    LET key == WrittenKey(exc)
        value == [i \in 1..Len(allocated) |->
                     <<allocated[i].cons_name, allocated[i].cons_prod,
                       allocated[i].cons_loc, allocated[i].cons_key, share[i]>>]
        entry == [cons_loc |-> exc.cons_loc, key |-> key, value |-> value]
    IN  IF \E i \in 1..Len(c) : c[i].cons_loc = exc.cons_loc /\ c[i].key = key
        THEN [i \in 1..Len(c) |->
                 IF c[i].cons_loc = exc.cons_loc /\ c[i].key = key THEN entry ELSE c[i]]
        ELSE Append(c, entry)

\* allocate_inputs(exc, lst): the exchange copied once per supplier, and the
\* shares
allocate_inputs(exc, lst) ==
    LET has_row == \E i \in 1..Len(lst) : lst[i].cons_loc \in {"RoW", "GLO"}
        by_volume == (\A i \in 1..Len(lst) : RLt(Zero, lst[i].cons_prod_vol)) /\ ~has_row
        pvs == [i \in 1..Len(lst) |->
                   IF by_volume THEN lst[i].cons_prod_vol ELSE FromInt(1)]
        total == IF by_volume THEN SumSeq(pvs) ELSE FromInt(Len(lst))
    IN  [allocated |-> [i \in 1..Len(lst) |->
                           [exc EXCEPT !.cons_loc = lst[i].cons_loc,
                                       !.amount = RMul(RDiv(pvs[i], total), exc.amount)]],
         share |-> [i \in 1..Len(lst) |-> RDiv(pvs[i], total)]]

\* the production datasets of the supplier of exc (lines 428-434)
PossibleDatasets(exc) ==
    SelectSeq(Database,
              LAMBDA d : d.cons_name = exc.prod_name /\ d.cons_prod = exc.prod_prod)

\* the exchanges built from a cache entry (lines 398-424)
ExchangesOfEntry(exc, e) ==
    [i \in 1..Len(e) |->
        [exc EXCEPT !.prod_name = e[i][1], !.prod_prod = e[i][2], !.prod_loc = e[i][3],
                    !.prod_key = e[i][4], !.amount = RMul(exc.amount, e[i][5])]]

\* the body of the loop for one exchange, `matching` being what
\* find_matching_regions answers for a consumer location: the new exchanges
\* and the cache after it
RelinkExchange(c, exc, matching) ==
    LET possible == PossibleDatasets(exc)
        eligible == SelectSeq(possible, LAMBDA d : d.cons_loc \in matching[exc.cons_loc])
        alloc == allocate_inputs(exc, eligible)
    IN  IF InCache(c, exc)
        THEN [cache |-> c, from_cache |-> TRUE, exc |-> exc, computed |-> FALSE,
              new |-> ExchangesOfEntry(exc, FromCache(c, exc))]
        ELSE IF \E i \in 1..Len(possible) : possible[i].cons_loc = exc.cons_loc
        THEN [cache |-> c, from_cache |-> FALSE, exc |-> exc, computed |-> FALSE,
              new |-> <<[exc EXCEPT !.prod_loc = exc.cons_loc]>>]
        ELSE IF Len(possible) > 0
        THEN (IF eligible = <<>>
              THEN [cache |-> c, from_cache |-> FALSE, exc |-> exc, computed |-> FALSE,
                    new |-> <<exc>>]
              ELSE [cache |-> write_cache(c, exc, alloc.allocated, alloc.share),
                    from_cache |-> FALSE, exc |-> exc, computed |-> TRUE,
                    new |-> alloc.allocated])
        ELSE [cache |-> write_cache(c, exc, <<exc>>, <<FromInt(1)>>),
              from_cache |-> FALSE, exc |-> exc, computed |-> TRUE, new |-> <<exc>>]

\* for _, exc in ds[__filters_tech].iterrows(), from the i-th exchange on:
\* the cache and what happened to each exchange
RECURSIVE RelinkLoop(_, _, _, _)
RelinkLoop(acc, ds, matching, i) ==
    IF i > Len(ds) THEN acc
    ELSE LET done == RelinkExchange(acc.cache, ds[i], matching)
         IN  RelinkLoop([cache |-> done.cache,
                         before |-> Append(acc.before, acc.cache),
                         outcome |-> Append(acc.outcome,
                                            [from_cache |-> done.from_cache,
                                             computed |-> done.computed,
                                             exc |-> done.exc, new |-> done.new])],
                        ds, matching, i + 1)

InitRelink ==
    /\ Idle
    /\ store_call = None
    /\ avg_call = None
    /\ shares_call = None
    /\ self_cache = <<>>
    /\ relinked = [kind |-> "none", calls |-> 0]

\* relink_technosphere_exchanges(ds, scenario) for a dataset with one to
\* MaxExchanges technosphere exchanges
relink_technosphere_exchanges ==
    /\ relinked.calls < MaxRelinks
    /\ \E n \in 1..MaxExchanges :
          \E ds \in [1..n -> TechnosphereExchanges],
             matching \in [{"DE", "WEU"} -> SUBSET {"DE", "FR"}] :
              \E out \in {RelinkLoop([cache |-> self_cache, before |-> <<>>,
                                      outcome |-> <<>>], ds, matching, 1)} :
                  /\ self_cache' = out.cache
                  /\ relinked' = [kind |-> "relinked", calls |-> relinked.calls + 1,
                                  before |-> out.before, outcome |-> out.outcome]
    /\ UNCHANGED <<data, leadtimes_yaml, lifetimes_yaml, year, args, pc, ncall, log, result,
                   first_result, data0, leadtime_cache, lifetime_cache, reads, store_call,
                   avg_call, shares_call>>

NextRelink == relink_technosphere_exchanges

SpecRelink == InitRelink /\ [][NextRelink]_vars

\* write_cache has stored an allocation for the consumer location, supplier
\* name, supplier product and supplier location of exc in the cache c
StoredFor(c, exc) ==
    \E i \in 1..Len(c) :
        /\ c[i].cons_loc = exc.cons_loc
        /\ c[i].key[1] = exc.prod_name
        /\ c[i].key[2] = exc.prod_prod
        /\ c[i].key[3] = exc.prod_loc

\* C26: once write_cache has stored the allocation of a technosphere
\* exchange, every later exchange with the same consumer location, supplier
\* name, supplier product and supplier location is served from self.cache
\* and is not allocated again.
C26_LaterExchangeServedFromCache ==
    relinked.kind = "relinked" =>
        \A i \in 1..Len(relinked.outcome) :
            StoredFor(relinked.before[i], relinked.outcome[i].exc) =>
                /\ relinked.outcome[i].from_cache
                /\ ~relinked.outcome[i].computed

=============================================================================
